---- MODULE Spec2Model ----
(***************************************************************************)
(* napari-roi-manager: the ROI collection state machine                    *)
(* (layers/_layer.py, _dataclasses.py) together with the list widget that  *)
(* mirrors it (widgets/_roi_manager.py).                                   *)
(*                                                                         *)
(* Conventions.  Python indices are 0-based; the element with Python index *)
(* i of a list is element i+1 of the sequence that models it.  A shape is  *)
(* a token (a natural number standing for its coordinate array); its kind  *)
(* is kept in the parallel shape_type sequence, exactly as the layer does. *)
(* An exception raised by an operation is recorded in err, and the state   *)
(* is left as the code leaves it at the raising statement.  Of the names   *)
(* only their number is kept: a row of the list widget is its type column, *)
(* and a file records how many names it holds.                             *)
(*                                                                         *)
(* The canvas (napari Shapes) is used through add, remove_selected, the    *)
(* data / shape_type / features / selected_data setters and the data       *)
(* event; the operators Shapes* below model what those calls do at the     *)
(* call sites of this repository.                                          *)
(***************************************************************************)
EXTENDS Integers, Sequences, FiniteSets, TLC

\* ------------------------------------------------------------------ bounds
MaxShapes == 4      \* shapes ever created (drawn or read from a sample file)
MaxLoad == 3        \* records of a sample file
MaxSteps == 6       \* operations in a run
MaxSel == 2         \* a selection made by the user holds at most MaxSel indices, or all
MaxLive == 5        \* cap on the length of the live sequence, the hidden buffer and the list

\* --------------------------------------------------------------- constants
None == -1          \* Python None of current_item
NoErr == "none"
Half == 1           \* 0.5 pixel, in the unit of the coordinates of the conversions
Pixel == 2          \* 1 pixel, in that unit
\* the kind drawn for a token: kinds are only carried by the state machine,
\* so the drawn kinds alternate instead of being chosen freely
DrawKinds(id) == {IF id % 2 = 0 THEN "rectangle" ELSE "ellipse"}

VARIABLES
    data,             \* Shapes.data: the live sequence
    shape_type,       \* Shapes.shape_type
    features,         \* the id column of Shapes.features
    feature_defaults, \* the id entry of Shapes.feature_defaults
    selected_data,    \* Shapes.selected_data
    current_item,     \* RoiManagerLayer._current_item
    show_all,         \* RoiManagerLayer._show_all
    hidden,           \* RoiManagerLayer._hidden_shapes
    text_visible,     \* layer.text.visible
    rows,             \* QRoiListWidget rows: the type column
    announced,        \* history: the shapes roi_added has been emitted for
    emitted,          \* the notifications emitted by the last operation, in order
    scen,             \* history: progress of the register / hide / register / show run
    list_sel,         \* QRoiListWidget selected rows
    file,             \* the file last written by save_roiset
    last_op,          \* the last operation and the inputs the properties refer to
    next_id,          \* next fresh shape token
    steps,            \* operations performed so far
    err,              \* exception raised by the last operation
    paused,           \* events.data: the number of blockers in force
    reentered,        \* _on_data_change was entered while it was running
    subject,          \* conversions: the value given to to_json_dict / shape_to_roi
    encoded,          \* conversions: the JSON dictionary / ImageJ record made of it
    decoded           \* conversions: what from_json_dict / roi_to_shape makes of that

vars == <<data, shape_type, features, feature_defaults, selected_data,
          current_item, show_all, hidden, text_visible, rows, list_sel,
          announced, emitted, scen, file, last_op, next_id, steps, err,
          paused, reentered, subject, encoded, decoded>>

\* ----------------------------------------------------------- list helpers
\* seq without the elements whose Python index is in R
RemoveIdx(seq, R) ==
    LET F[i \in 0..Len(seq)] ==
            IF i = 0 THEN <<>>
            ELSE IF (i - 1) \in R THEN F[i - 1] ELSE Append(F[i - 1], seq[i])
    IN  F[Len(seq)]

Range(seq) == {seq[i] : i \in 1..Len(seq)}

ARange(n) == [i \in 1..n |-> i - 1]

Repeat(x, n) == [i \in 1..n |-> x]

Indices(seq) == 0..(Len(seq) - 1)

NSmaller(R, c) == Cardinality({i \in R : i < c})

\* an index set after the rows in R are gone (Qt keeps the selection on the rows)
ShiftSel(S, R) == {i - NSmaller(R, i) : i \in S \ R}

\* ------------------------------------------------------ the state record
HiddenInit ==
    [data |-> <<>>, shape_type |-> <<>>, selected_data |-> {},
     features |-> <<>>, current_item |-> None, display_text |-> FALSE]

NoFile == [fmt |-> "none", data |-> <<>>, shape_type |-> <<>>,
           has_names |-> FALSE, n_names |-> 0]

State ==
    [data |-> data, shape_type |-> shape_type, features |-> features,
     feature_defaults |-> feature_defaults, selected_data |-> selected_data,
     current_item |-> current_item, show_all |-> show_all, hidden |-> hidden,
     text_visible |-> text_visible, rows |-> rows, list_sel |-> list_sel,
     announced |-> announced, emitted |-> <<>>, err |-> NoErr,
     paused |-> paused, handling |-> 0, reentered |-> FALSE]

Raise(s, e) == [s EXCEPT !.err = e]

NShapes(s) == Len(s.data)

\* ------------------------------------------- the list widget (mirror)
\* events.roi_added(index, shape_type) and its handler _roi_added:
\* roilist.addRow(name, shape_type); shape is the shape the event is emitted
\* for, kept for the history only
Notification(ev, index, kind, indices) ==
    [ev |-> ev, index |-> index, kind |-> kind, indices |-> indices]

RoiAdded(s, index, kind, shape) ==
    [s EXCEPT !.rows = Append(@, kind), !.announced = @ \cup {shape},
              !.emitted = Append(@, Notification("roi_added", index, kind, {}))]

\* _roi_removed: removeRow(idx) for idx in reversed(sorted(indices));
\* QTableWidget.removeRow of a row that does not exist does nothing
RoiRemoved(s, R) ==
    [s EXCEPT !.rows = RemoveIdx(@, R),
              !.list_sel = ShiftSel(@, R \cap Indices(s.rows)),
              !.emitted = Append(@, Notification("roi_removed", None, "", R))]

\* ------------------------------------------------- canvas: napari Shapes
\* An operator that models a statement leaves a state that holds an exception
\* as it is: the statement is not reached.

\* Shapes.selected_data setter: the set is stored, then the interaction box
\* and the colours of the selected shapes are read, which fails on an index
\* that is not a shape
ShapesSetSelected(s, X) ==
    IF s.err # NoErr THEN s
    ELSE IF \E i \in X : i >= NShapes(s)
         THEN Raise([s EXCEPT !.selected_data = X], "IndexError")
         ELSE [s EXCEPT !.selected_data = X]

\* features setter: the table is cut to the number of shapes and the
\* defaults are taken from its last row
ShapesSetFeatures(s, f) ==
    IF s.err # NoErr THEN s
    ELSE LET g == SubSeq(f, 1, NShapes(s))
         IN  [s EXCEPT !.features = g,
                       !.feature_defaults = IF Len(g) > 0 THEN g[Len(g)] ELSE 0]

\* _relabel_feature_id: df["id"] = arange(n); self.features = df
RelabelFeatureId(s) ==
    ShapesSetFeatures(s, ARange(Len(s.features)))

\* with self.events.data.blocker(): entering the scope blocks the data
\* event once more; leaving it, by the end of the body or by an exception
\* raised in it, unblocks it.  Both are applied to states without exception
\* at the entry of the scope only.
BlockerEnter(s) == [s EXCEPT !.paused = @ + 1]

\* a scope that unblocks at the end of its body only
BlockerExitUnlessRaised(s) ==
    IF s.err # NoErr THEN s ELSE [s EXCEPT !.paused = @ - 1]

BlockerExit(s) == [s EXCEPT !.paused = @ - 1]

\* _on_data_change is called / returns or raises
HandlerEnter(s) ==
    [s EXCEPT !.reentered = @ \/ s.handling > 0, !.handling = @ + 1]

HandlerExit(s) == [s EXCEPT !.handling = @ - 1]

\* _on_data_change, action REMOVED with data_indices R
OnRemovedNoShift(s, R) ==
    LET c == s.current_item
    IN  RelabelFeatureId(IF c = None THEN s
                         ELSE IF c \in R THEN [s EXCEPT !.current_item = None]
                         ELSE s)

OnRemoved(s, R) ==
    LET c == s.current_item
    IN  RelabelFeatureId(IF c = None THEN s
                         ELSE IF c \in R THEN [s EXCEPT !.current_item = None]
                         ELSE [s EXCEPT !.current_item = c - NSmaller(R, c)])

\* events.data(action=REMOVED, data_indices=R): _on_data_change is called
\* unless the data event is blocked
EmitRemoved(s, R) ==
    IF s.err # NoErr \/ s.paused > 0 THEN s
    ELSE HandlerExit(OnRemoved(HandlerEnter(s), R))

\* the shapes with index in R and their feature rows leave the canvas
ShapesDrop(s, R) ==
    [s EXCEPT !.data = RemoveIdx(@, R),
              !.shape_type = RemoveIdx(@, R),
              !.features = RemoveIdx(@, R)]

\* Shapes.remove_selected: removes the selected shapes and their feature
\* rows, emits REMOVING / REMOVED unless the data event is blocked, and
\* clears the selection
ShapesRemoveSelected(s) ==
    IF s.err # NoErr THEN s
    ELSE IF \E i \in s.selected_data : i >= NShapes(s) THEN Raise(s, "IndexError")
    ELSE [(IF s.selected_data # {}
           THEN EmitRemoved(ShapesDrop(s, s.selected_data), s.selected_data)
           ELSE ShapesDrop(s, s.selected_data))
          EXCEPT !.selected_data = {}]

\* _remove_current without the blocker: the removal is announced to
\* _on_data_change
RemoveCurrentUnpaused(s) ==
    IF s.err # NoErr THEN s
    ELSE IF s.current_item # None
         THEN ShapesRemoveSelected(ShapesSetSelected(s, {s.current_item}))
         ELSE s

\* _remove_current: the removal runs with the data event blocked, so the
\* REMOVED branch of _on_data_change does not run
RemoveCurrent(s) ==
    IF s.err # NoErr THEN s
    ELSE IF s.current_item # None
         THEN BlockerExit(
                  ShapesRemoveSelected(
                      ShapesSetSelected(BlockerEnter(s), {s.current_item})))
         ELSE s

\* _on_data_change, action ADDING: without show_all the live shapes are
\* removed, with the data event blocked
OnAddingPrivate(s) ==
    IF s.err = NoErr /\ ~s.show_all
    THEN BlockerExit(
             ShapesRemoveSelected(
                 ShapesSetSelected(BlockerEnter(s), Indices(s.data))))
    ELSE s

\* _on_data_change, action ADDING: feature_defaults = {"id": self.nshapes}
OnAddingDefaults(s) ==
    IF s.err # NoErr THEN s
    ELSE [s EXCEPT !.feature_defaults = NShapes(s)]

\* _on_data_change, action ADDING
OnAdding(s) == OnAddingDefaults(OnAddingPrivate(RemoveCurrent(s)))

\* _on_data_change, action ADDED, without self.selected_data = {idx}
OnAddedKeepsSelection(s) ==
    IF s.err # NoErr THEN s
    ELSE RelabelFeatureId([s EXCEPT !.current_item = NShapes(s) - 1])

\* _on_data_change, action ADDED with data_indices (-1,)
OnAdded(s) ==
    IF s.err # NoErr THEN s
    ELSE RelabelFeatureId(
             ShapesSetSelected([s EXCEPT !.current_item = NShapes(s) - 1],
                               {NShapes(s) - 1}))

\* Shapes.add: the shape and a feature row with the defaults are appended
ShapesAppend(s, shape, kind) ==
    IF s.err # NoErr THEN s
    ELSE [s EXCEPT !.data = Append(@, shape),
                   !.shape_type = Append(@, kind),
                   !.features = Append(@, s.feature_defaults)]

\* events.data(action=ADDING) and events.data(action=ADDED, data_indices=(-1,)):
\* _on_data_change is called unless the data event is blocked
EmitAdding(s) ==
    IF s.err # NoErr \/ s.paused > 0 THEN s
    ELSE HandlerExit(OnAdding(HandlerEnter(s)))

EmitAdded(s) ==
    IF s.err # NoErr \/ s.paused > 0 THEN s
    ELSE HandlerExit(OnAdded(HandlerEnter(s)))

\* Shapes.add of one shape: ADDING, the append, ADDED
ShapesAdd(s, shape, kind) ==
    EmitAdded(ShapesAppend(EmitAdding(s), shape, kind))

\* Shapes.data setter: the shape list is replaced (kinds are kept or padded
\* with the default kind) and the feature table is resized to the new
\* length; the CHANGED data event has no branch in _on_data_change
DefaultKind(types) ==
    IF Len(types) > 0 /\ \A i \in 1..Len(types) : types[i] = types[1]
    THEN types[1] ELSE "polygon"

ShapesSetData(s, d) ==
    IF s.err # NoErr THEN s
    ELSE LET n == Len(d)
             m == NShapes(s)
             ty == IF n <= m THEN SubSeq(s.shape_type, 1, n)
                   ELSE s.shape_type \o Repeat(DefaultKind(s.shape_type), n - m)
             ft == IF n <= Len(s.features) THEN SubSeq(s.features, 1, n)
                   ELSE s.features \o Repeat(s.feature_defaults, n - Len(s.features))
         IN  [s EXCEPT !.data = d, !.shape_type = ty, !.features = ft]

\* ------------------------------------------------------- HiddenShapes
\* HiddenShapes.clear: data and shape_type are emptied, current_item reset;
\* features, selected_data and display_text are left as they are
HiddenClear(h) ==
    [h EXCEPT !.data = <<>>, !.shape_type = <<>>, !.current_item = None]

\* HiddenShapes.pop(idx) on the buffer of s; the popped pair is
\* <<s.hidden.data[idx], s.hidden.shape_type[idx]>>
HiddenPop(s, idx) ==
    IF s.err # NoErr THEN s
    ELSE IF idx >= Len(s.hidden.data) THEN Raise(s, "IndexError")
    ELSE IF idx >= Len(s.hidden.features)
         THEN Raise([s EXCEPT !.hidden.data = RemoveIdx(@, {idx}),
                              !.hidden.shape_type = RemoveIdx(@, {idx})],
                    "IndexError")
    ELSE [s EXCEPT !.hidden.data = RemoveIdx(@, {idx}),
                   !.hidden.shape_type = RemoveIdx(@, {idx}),
                   !.hidden.features = RemoveIdx(@, {idx}),
                   !.hidden.selected_data = @ \ {idx}]

\* ---------------------------------------------------- RoiManagerLayer
\* roi_count
RoiCount(s) ==
    IF s.show_all
    THEN IF s.current_item = None THEN NShapes(s) ELSE NShapes(s) - 1
    ELSE Len(s.hidden.data)

\* register_roi that returns at once when there is no current item
RegisterRoiReturnsOnNone(s) ==
    LET c == s.current_item
    IN  IF c = None THEN s
        ELSE IF c >= NShapes(s) THEN Raise(s, "IndexError")
        ELSE IF ~s.show_all
             THEN [RoiAdded(s, c, s.shape_type[c + 1], s.data[c + 1]) EXCEPT
                      !.hidden.data = Append(@, s.data[c + 1]),
                      !.hidden.shape_type = Append(@, s.shape_type[c + 1]),
                      !.current_item = None]
             ELSE [ShapesSetSelected(
                       RoiAdded(s, c, s.shape_type[c + 1], s.data[c + 1]), {})
                   EXCEPT !.current_item = None]

\* register_roi
RegisterRoi(s) ==
    LET c == s.current_item
    IN  IF c = None THEN [ShapesSetSelected(s, {}) EXCEPT !.current_item = None]
        ELSE IF c >= NShapes(s) THEN Raise(s, "IndexError")
        ELSE IF ~s.show_all
             THEN [RoiAdded(s, c, s.shape_type[c + 1], s.data[c + 1]) EXCEPT
                      !.hidden.data = Append(@, s.data[c + 1]),
                      !.hidden.shape_type = Append(@, s.shape_type[c + 1]),
                      !.current_item = None]
             ELSE [ShapesSetSelected(
                       RoiAdded(s, c, s.shape_type[c + 1], s.data[c + 1]), {})
                   EXCEPT !.current_item = None]

\* remove_selected (the override), after Shapes.remove_selected: roi_removed
\* is emitted unless selected is {current_item}, with current_item as the
\* REMOVED handler left it
NotifyRemoved(s, selected) ==
    IF s.err # NoErr THEN s
    ELSE IF selected # {s.current_item} THEN RoiRemoved(s, selected)
    ELSE s

\* remove_selected (the override)
LayerRemoveSelected(s) ==
    NotifyRemoved(ShapesRemoveSelected(s), s.selected_data)

\* _initialize_layer, after remove_selected
InitializeReset(s) ==
    IF s.err # NoErr THEN s
    ELSE [s EXCEPT !.hidden = HiddenClear(@), !.current_item = None]

\* _initialize_layer
InitializeLayer(s) ==
    InitializeReset(LayerRemoveSelected(ShapesSetSelected(s, Indices(s.data))))

\* the loop of update_from_json: add (data event blocked), then roi_added
RECURSIVE AddLoaded(_, _, _, _)
AddLoaded(s, rois, n0, i) ==
    IF i > Len(rois.data) \/ s.err # NoErr THEN s
    ELSE AddLoaded(RoiAdded(ShapesAdd(s, rois.data[i], rois.shape_type[i]),
                            n0 + i - 1, rois.shape_type[i], rois.data[i]),
                   rois, n0, i + 1)

\* update_from_json after the loop: df["id"] = arange, the names merged;
\* cur_column is the length of the name column before the loop, and
\* df["name"] = new_column fails when new_column has not the length of the
\* table
MergeLoaded(s, rois, cur_column) ==
    IF s.err # NoErr THEN s
    ELSE IF rois.has_names /\ cur_column + rois.n_names # Len(s.features)
         THEN Raise([s EXCEPT !.features = ARange(Len(s.features))], "ValueError")
    ELSE ShapesSetFeatures(s, ARange(Len(s.features)))

\* update_from_json from nshapes = self.roi_count() on
LoadInto(s, rois) ==
    IF s.err # NoErr THEN s
    ELSE MergeLoaded(
             ShapesSetSelected(
                 BlockerExit(
                     AddLoaded(BlockerEnter([s EXCEPT !.current_item = None]),
                               rois, RoiCount(s), 1)),
                 {}),
             rois,
             IF rois.has_names THEN Len(s.rows) ELSE 0)

\* update_from_json(path, append) for a file holding the collection rois
UpdateFromJson(s, rois, append) ==
    LoadInto(IF ~append THEN InitializeLayer(s) ELSE s, rois)

\* show_all setter, show-all branch: self.data = hidden.data + self.data
ShowData(s, h) == ShapesSetData(s, h.data \o s.data)

\* self.features = pd.concat([hidden.features, self.features])
ShowFeatures(s, h) == ShapesSetFeatures(s, h.features \o s.features)

\* self.shape_type = hidden.shape_type + old_shape_type, unless empty
ShowTypes(s, types) ==
    IF s.err # NoErr THEN s
    ELSE IF Len(types) > 0 THEN [s EXCEPT !.shape_type = types]
    ELSE s

\* current_item and the selection are restored: from the hidden buffer when
\* it holds a current item, else current_item is c0, the one of the entry
ShowSelect(s, h, c0) ==
    IF s.err # NoErr THEN s
    ELSE IF h.current_item # None
         THEN ShapesSetSelected([s EXCEPT !.current_item = h.current_item],
                                {h.current_item})
    ELSE ShapesSetSelected([s EXCEPT !.current_item = c0], h.selected_data)

\* hidden.clear(); text.visible = hidden.display_text; _show_all = True
ShowFinish(s, h) ==
    IF s.err # NoErr THEN s
    ELSE [s EXCEPT !.hidden = HiddenClear(@),
                   !.text_visible = h.display_text,
                   !.show_all = TRUE]

\* show_all setter, show_all = True ("show all" checked)
ShowBranchNoTypes(s) ==
    ShowFinish(
        ShowSelect(
            ShowFeatures(ShowData(ShapesSetSelected(s, {}), s.hidden), s.hidden),
            s.hidden, s.current_item),
        s.hidden)

ShowBranch(s) ==
    ShowFinish(
        ShowSelect(
            ShowTypes(
                ShowFeatures(ShowData(ShapesSetSelected(s, {}), s.hidden), s.hidden),
                s.hidden.shape_type \o s.shape_type),
            s.hidden, s.current_item),
        s.hidden)

\* show_all setter, hide branch: _hidden_shapes.update(...)
HideUpdate(s) ==
    [s EXCEPT !.hidden =
        [data |-> s.data, shape_type |-> s.shape_type,
         features |-> s.features, selected_data |-> s.selected_data,
         current_item |-> s.current_item, display_text |-> s.text_visible]]

\* self._current_item = None; self.data = []
HideClearLive(s) ==
    IF s.err # NoErr THEN s
    ELSE ShapesSetData([s EXCEPT !.current_item = None], <<>>)

\* self._current_item = 0; self.selected_data = {0}
HideSelectCurrent(s) ==
    IF s.err # NoErr THEN s
    ELSE ShapesSetSelected([s EXCEPT !.current_item = 0], {0})

\* text.visible = False; _show_all = False
HideFinish(s) ==
    IF s.err # NoErr THEN s
    ELSE [s EXCEPT !.text_visible = FALSE, !.show_all = FALSE]

\* show_all setter, show_all = False ("show all" unchecked); the popped
\* current shape is added back while _show_all is still True
HideBranch(s) ==
    LET c == s.current_item
    IN  IF c # None
        THEN HideFinish(
                 HideSelectCurrent(
                     ShapesAdd(HideClearLive(HiddenPop(HideUpdate(s), c)),
                               s.data[c + 1], s.shape_type[c + 1])))
        ELSE HideFinish(
                 [ShapesSetData(ShapesSetSelected(HideUpdate(s), {}), <<>>)
                  EXCEPT !.current_item = None])

\* show_all setter for a bool argument
SetShowAllOp(s, b) ==
    IF s.show_all = b THEN s
    ELSE IF b THEN ShowBranch(s) ELSE HideBranch(s)

\* A value assigned to show_all is [bool, val]: bool says whether it is a
\* Python bool, val is 1 or 0; True == 1 and False == 0 in Python
Truth(v) == v.val = 1

\* show_all setter without the isinstance check: the argument is compared
\* with self.show_all and used as the condition of the branches
ShowAllSetterUnchecked(s, v) == SetShowAllOp(s, Truth(v))

\* show_all setter: a value that is not a bool raises TypeError
ShowAllSetter(s, v) ==
    IF ~v.bool THEN Raise(s, "TypeError") ELSE SetShowAllOp(s, Truth(v))

\* get_roi_data: the state it leaves.  With show_all the lists are fresh
\* copies made by the canvas; without, they are the lists of the hidden
\* buffer themselves, and the pop of current_item acts on the buffer
GetRoiDataState(s) ==
    LET c == s.current_item
    IN  IF c = None THEN s
        ELSE IF s.show_all
             THEN IF c >= NShapes(s) THEN Raise(s, "IndexError") ELSE s
             ELSE IF c >= Len(s.hidden.data) THEN Raise(s, "IndexError")
                  ELSE [s EXCEPT !.hidden.data = RemoveIdx(@, {c}),
                                 !.hidden.shape_type = RemoveIdx(@, {c})]

\* get_roi_data: the RoiData it returns (when it does not raise)
GetRoiDataResult(s) ==
    LET c == s.current_item
        d == IF s.show_all THEN s.data ELSE s.hidden.data
        ty == IF s.show_all THEN s.shape_type ELSE s.hidden.shape_type
        R == IF c = None THEN {} ELSE {c}
    IN  [data |-> RemoveIdx(d, R), shape_type |-> RemoveIdx(ty, R),
         n_names |-> Len(s.rows)]

\* read_ij_roi for an archive recs of records [kind, shape]; a POINT
\* record decodes to None and is skipped; roi_added carries the position of
\* the record in the archive
RECURSIVE AddIjStopAtPoint(_, _, _)
AddIjStopAtPoint(s, recs, i) ==
    IF i > Len(recs) \/ s.err # NoErr THEN s
    ELSE IF recs[i].kind = "point" THEN s
    ELSE IF recs[i].kind = "line" THEN Raise(s, "AttributeError")
    ELSE AddIjStopAtPoint(RoiAdded(ShapesAdd(s, recs[i].shape, recs[i].kind),
                                   i - 1, recs[i].kind, recs[i].shape),
                          recs, i + 1)

RECURSIVE AddIj(_, _, _)
AddIj(s, recs, i) ==
    IF i > Len(recs) \/ s.err # NoErr THEN s
    ELSE IF recs[i].kind = "point" THEN AddIj(s, recs, i + 1)
    ELSE IF recs[i].kind = "line" THEN Raise(s, "AttributeError")
    ELSE AddIj(RoiAdded(ShapesAdd(s, recs[i].shape, recs[i].kind),
                        i - 1, recs[i].kind, recs[i].shape),
               recs, i + 1)

ReadIjRoi(s, recs) ==
    IF s.err # NoErr THEN s
    ELSE BlockerExit(AddIj(BlockerEnter(s), recs, 1))

\* _remove_button_clicked without show_all: roilist.removeRow(i) after
\* _hidden_shapes.pop(i)
RemoveRow(s, i) ==
    IF s.err # NoErr THEN s
    ELSE [s EXCEPT !.rows = RemoveIdx(@, {i}),
                   !.list_sel = ShiftSel(@, {i} \cap Indices(s.rows))]

\* the largest index first: sorted(..., reverse=True)
Last(todo) == CHOOSE x \in todo : \A y \in todo : y <= x

RECURSIVE PopRows(_, _)
PopRows(s, todo) ==
    IF todo = {} \/ s.err # NoErr THEN s
    ELSE PopRows(RemoveRow(HiddenPop(s, Last(todo)), Last(todo)),
                 todo \ {Last(todo)})

\* _remove_button_clicked
RemoveButtonClicked(s) ==
    IF s.show_all THEN LayerRemoveSelected(s)
    ELSE PopRows(s, s.list_sel)

\* _roi_selected(indices), after _remove_current
SelectIfShown(s, X) ==
    IF s.show_all THEN ShapesSetSelected(s, X) ELSE s

\* _roi_selected(indices)
RoiSelected(s, X) == SelectIfShown(RemoveCurrent(s), X)

\* mode setter
SetMode(s) ==
    IF s.current_item # None THEN ShapesSetSelected(s, {s.current_item}) ELSE s

\* ------------------------------------------------------------ the files
\* a sample JSON file of n fresh shapes, with or without the names entry
SampleKind == "polygon"

SampleJson(n, has_names) ==
    [fmt |-> "json",
     data |-> [i \in 1..n |-> next_id + i - 1],
     shape_type |-> [i \in 1..n |-> SampleKind],
     has_names |-> has_names,
     n_names |-> IF has_names THEN n ELSE 0]

\* a sample ImageJ archive of n fresh supported records, with a POINT record
\* in front when with_point
SampleIj(n, with_point) ==
    LET d == [i \in 1..n |-> next_id + i - 1]
        ty == [i \in 1..n |-> SampleKind]
    IN  [fmt |-> "zip",
         data |-> IF with_point THEN <<None>> \o d ELSE d,
         shape_type |-> IF with_point THEN <<"point">> \o ty ELSE ty,
         has_names |-> TRUE,
         n_names |-> IF with_point THEN n + 1 ELSE n]

\* the records roiread gives for an archive
IjRecords(f) ==
    [i \in 1..Len(f.data) |-> [kind |-> f.shape_type[i], shape |-> f.data[i]]]

\* ------------------------------------------------ RoiData and its JSON form
\* A coordinate array is [shape, flat]: its numpy shape and its elements in
\* row-major order.  A Python list is a sequence; names is [some, val], with
\* some = FALSE for None.
NoNames == [some |-> FALSE, val |-> <<>>]

\* ndarray.tolist() of an (n, 2) array: the list of its rows
ToList(a) ==
    [i \in 1..a.shape[1] |-> [j \in 1..a.shape[2] |-> a.flat[(i - 1) * a.shape[2] + j]]]

RECURSIVE Flatten(_)
Flatten(rows2) ==
    IF Len(rows2) = 0 THEN <<>> ELSE Head(rows2) \o Flatten(Tail(rows2))

\* np.array(d) of a list of rows: the shape is read off the nesting
NpArray(d) ==
    IF Len(d) = 0 THEN [shape |-> <<0>>, flat |-> <<>>]
    ELSE [shape |-> <<Len(d), Len(d[1])>>, flat |-> Flatten(d)]

\* RoiData.to_json_dict: the dictionary is a function on its keys
ToJsonDict(c) ==
    [k \in {"data", "shape_type"} \cup (IF c.names.some THEN {"names"} ELSE {}) |->
        IF k = "data" THEN [i \in 1..Len(c.data) |-> ToList(c.data[i])]
        ELSE IF k = "shape_type" THEN c.shape_type
        ELSE c.names.val]

\* RoiData.from_json_dict with names = js.get("names", []) in place of
\* js.get("names")
FromJsonDictDefaultList(js) ==
    [data |-> [i \in 1..Len(js["data"]) |-> NpArray(js["data"][i])],
     shape_type |-> js["shape_type"],
     names |-> IF "names" \in DOMAIN js
               THEN [some |-> TRUE, val |-> js["names"]]
               ELSE [some |-> TRUE, val |-> <<>>]]

\* RoiData.from_json_dict
FromJsonDict(js) ==
    [data |-> [i \in 1..Len(js["data"]) |-> NpArray(js["data"][i])],
     shape_type |-> js["shape_type"],
     names |-> IF "names" \in DOMAIN js
               THEN [some |-> TRUE, val |-> js["names"]]
               ELSE NoNames]

\* RoiTuple(data, shape_type, name); name is [some, val]
RoiTuple(d, kind, name) == [data |-> d, shape_type |-> kind, name |-> name]

\* RoiData.iter_shapes, run to its end: the records it yields and the
\* exception that ends it, if any.  i counts from 1; names[i] of a list that
\* is too short raises IndexError
RECURSIVE IterShapesFrom(_, _, _)
IterShapesFrom(c, i, out) ==
    IF i > Len(c.data) THEN [out |-> out, err |-> NoErr]
    ELSE IF i > Len(c.shape_type) THEN [out |-> out, err |-> "IndexError"]
    ELSE IF ~c.names.some
         THEN IterShapesFrom(c, i + 1,
                             Append(out, RoiTuple(c.data[i], c.shape_type[i], NoNames)))
    ELSE IF i > Len(c.names.val) THEN [out |-> out, err |-> "IndexError"]
    ELSE IterShapesFrom(c, i + 1,
                        Append(out, RoiTuple(c.data[i], c.shape_type[i],
                                             [some |-> TRUE, val |-> c.names.val[i]])))

iter_shapes(c) == IterShapesFrom(c, 1, <<>>)

\* ------------------------------------------------- the ImageJ conversions
\* Coordinates are integers counting half pixels, so 0.5 is Half and 1 is
\* Pixel; a point is <<y, x>> (row, column) and a RoiTuple is
\* [data, shape_type, name] with data the sequence of its points.
MinOf(S) == CHOOSE m \in S : \A v \in S : m <= v

MaxOf(S) == CHOOSE m \in S : \A v \in S : v <= m

\* ys = shape.data[:, -2]; xs = shape.data[:, -1]
Ys(d) == [i \in 1..Len(d) |-> d[i][1]]

Xs(d) == [i \in 1..Len(d) |-> d[i][2]]

\* a.mean() of two entries whose sum is a whole number of half pixels
Mean2(a, b) == (a + b) \div 2

\* squared distance of two points
Dist2(p, q) == (p[1] - q[1]) * (p[1] - q[1]) + (p[2] - q[2]) * (p[2] - q[2])

\* a value made an integer number of pixels, as frompoints does for the
\* bounds: a whole number of pixels stays, a value half way between two goes
\* to one of them (up chooses which)
ToInt(v, up) ==
    IF v % Pixel = 0 THEN v ELSE IF up THEN v + Half ELSE v - Half

\* the ratios b / a of the rotated ellipses of the samples, as p / q
SampleRatios == {[p |-> 1, q |-> 2], [p |-> 1, q |-> 1]}

\* sqrt(n) / sqrt(d) as one of the sample ratios
Ratio(n, d) == CHOOSE r \in SampleRatios : r.p * r.p * d = r.q * r.q * n

\* the 32 bits of the IEEE float that holds a sample ratio, and back
Float32Bits(r) == IF r.q = 2 THEN 1056964608 ELSE 1065353216

Float32Value(w) == CHOOSE r \in SampleRatios : Float32Bits(r) = w

\* A Python float that a 32 bit float can hold is written as the 32 bits of
\* that float, read as a signed 32 bit integer (negative when the sign bit
\* is set).  struct converts between the C float in the buffer and the C
\* double of the Python float, and the conversion makes a signaling NaN
\* (exponent all ones, mantissa not zero, top mantissa bit clear) quiet.
Low31(w) == IF w < 0 THEN (w + 2147483647) + 1 ELSE w

IsNaN32(w) == Low31(w) \div 8388608 = 255 /\ Low31(w) % 8388608 # 0

Quiet(w) ==
    IF IsNaN32(w) /\ (Low31(w) \div 4194304) % 2 = 0 THEN w + 4194304 ELSE w

\* the 4 bytes of the 32 bits w, and back
BytesOf(w, byteorder) ==
    LET m == Low31(w)
        be == <<m \div 16777216 + (IF w < 0 THEN 128 ELSE 0),
                (m \div 65536) % 256, (m \div 256) % 256, m % 256>>
    IN  IF byteorder = ">" THEN be ELSE <<be[4], be[3], be[2], be[1]>>

BitsOf(s, byteorder) ==
    LET be == IF byteorder = ">" THEN s ELSE <<s[4], s[3], s[2], s[1]>>
        m == (((be[1] % 128) * 256 + be[2]) * 256 + be[3]) * 256 + be[4]
    IN  IF be[1] >= 128 THEN (m - 2147483647) - 1 ELSE m

\* struct.pack(byteorder + "f", w)
PackF(w, byteorder) == BytesOf(Quiet(w), byteorder)

\* struct.unpack(byteorder + "f", s)
UnpackF(s, byteorder) == Quiet(BitsOf(s, byteorder))

\* struct.unpack(byteorder + "BBh", s): two unsigned bytes and a signed
\* 16 bit integer
UnpackBBh(s, byteorder) ==
    LET u == IF byteorder = ">" THEN s[3] * 256 + s[4] ELSE s[4] * 256 + s[3]
    IN  <<s[1], s[2], IF u >= 32768 THEN u - 65536 ELSE u>>

\* struct.pack(byteorder + "BBh", *ints)
PackBBh(ints, byteorder) ==
    LET u == ints[3] % 65536
    IN  IF byteorder = ">" THEN <<ints[1], ints[2], u \div 256, u % 256>>
        ELSE <<ints[1], ints[2], u % 256, u \div 256>>

\* encode_rotated_roi_width, on the bits of the float
encode_rotated_roi_width(w, byteorder) == UnpackBBh(PackF(w, byteorder), byteorder)

\* decode_rotated_roi_width, giving the bits of the float
decode_rotated_roi_width(ints, byteorder) == UnpackF(PackBBh(ints, byteorder), byteorder)

\* ImagejRoi(): the record with its default fields
ImagejRoi ==
    [roitype |-> "POLYGON", subtype |-> "UNDEFINED", subpixelresolution |-> FALSE,
     byteorder |-> ">", left |-> 0, top |-> 0, right |-> 0, bottom |-> 0,
     xd |-> 0, yd |-> 0, widthd |-> 0, heightd |-> 0,
     x1 |-> 0, y1 |-> 0, x2 |-> 0, y2 |-> 0,
     packed |-> <<0, 0, 0>>, name |-> "",
     integer_coordinates |-> <<>>, subpixel_coordinates |-> <<>>]

\* ImagejRoi.frompoints(points, name=...) at the call sites of shape_to_roi:
\* a FREEHAND record whose integer bounds are those of the points (xs, ys)
frompoints(xs, ys, name, up) ==
    [ImagejRoi EXCEPT
        !.roitype = "FREEHAND",
        !.left = ToInt(MinOf(xs), up), !.top = ToInt(MinOf(ys), up),
        !.right = ToInt(MaxOf(xs), up), !.bottom = ToInt(MaxOf(ys), up),
        !.name = name]

\* ImagejRoi.frompoints(np.stack([xs, ys], axis=1), name=...) with the
\* coordinates it stores: the points <<x, y>> as given, and as integers
\* relative to (left, top)
FromPointList(d, name, up) ==
    [frompoints(Range(Xs(d)), Range(Ys(d)), name, up) EXCEPT
        !.subpixel_coordinates = [i \in 1..Len(d) |-> <<d[i][2], d[i][1]>>],
        !.integer_coordinates =
            [i \in 1..Len(d) |->
                <<ToInt(d[i][2], up) - ToInt(MinOf(Range(Xs(d))), up),
                  ToInt(d[i][1], up) - ToInt(MinOf(Range(Ys(d))), up)>>]]

\* np.sqrt of a square number
Sqrt(n) == CHOOSE r \in 0..n : r * r = n

\* the 32 bits of the IEEE float that holds h / 2 (h half pixels, in
\* pixels): with 2^e <= h < 2^(e+1) the exponent field is 127 + e - 1 and
\* the mantissa field the rest of h, shifted to the top of its 23 bits
RECURSIVE Log2(_)
Log2(h) == IF h <= 1 THEN 0 ELSE 1 + Log2(h \div 2)

RECURSIVE Pow2(_)
Pow2(e) == IF e = 0 THEN 1 ELSE 2 * Pow2(e - 1)

Float32OfHalves(h) ==
    IF h = 0 THEN 0
    ELSE (126 + Log2(h)) * 8388608 + (h - Pow2(Log2(h))) * Pow2(23 - Log2(h))

\* shape_to_roi, rotated rectangle without roi.subtype = ROTATED_RECT
RotatedRectToRoiNoSubtype(shape, byteorder, up) ==
    LET d == shape.data
    IN  [FromPointList(d, shape.name, up)
         EXCEPT !.roitype = "FREEHAND",
                !.byteorder = byteorder,
                !.x1 = Mean2(d[2][2], d[3][2]), !.y1 = Mean2(d[2][1], d[3][1]),
                !.x2 = Mean2(d[1][2], d[4][2]), !.y2 = Mean2(d[1][1], d[4][1]),
                !.packed = encode_rotated_roi_width(
                               Float32OfHalves(Sqrt(Dist2(d[2], d[3]))), byteorder)]

\* shape_to_roi, rotated rectangle: the corners go to frompoints, the end
\* points are the middles of the edges 1-2 and 0-3, the packed float is the
\* length of the edge 1-2
RotatedRectToRoi(shape, byteorder, up) ==
    LET d == shape.data
    IN  [FromPointList(d, shape.name, up)
         EXCEPT !.roitype = "FREEHAND", !.subtype = "ROTATED_RECT",
                !.byteorder = byteorder,
                !.x1 = Mean2(d[2][2], d[3][2]), !.y1 = Mean2(d[2][1], d[3][1]),
                !.x2 = Mean2(d[1][2], d[4][2]), !.y2 = Mean2(d[1][1], d[4][1]),
                !.packed = encode_rotated_roi_width(
                               Float32OfHalves(Sqrt(Dist2(d[2], d[3]))), byteorder)]

\* shape_to_roi, line: the two points go to frompoints and to x1, y1, x2, y2
LineToRoi(shape, up) ==
    LET d == shape.data
    IN  [FromPointList(d, shape.name, up)
         EXCEPT !.x1 = d[1][2], !.y1 = d[1][1], !.x2 = d[2][2], !.y2 = d[2][1],
                !.roitype = "LINE"]

\* shape_to_roi, path and polygon
PointsToRoi(shape, roitype, up) ==
    [FromPointList(shape.data, shape.name, up) EXCEPT !.roitype = roitype]

\* shape_to_roi, rectangle and ellipse that are not rotated: the bounding
\* box plus 0.5 goes to frompoints, the box itself to the float fields
BoxToRoi(shape, roitype, up) ==
    LET y0 == MinOf(Range(Ys(shape.data)))
        y1 == MaxOf(Range(Ys(shape.data)))
        x0 == MinOf(Range(Xs(shape.data)))
        x1 == MaxOf(Range(Xs(shape.data)))
    IN  [frompoints({x0 + Half, x1 + Half}, {y0 + Half, y1 + Half}, shape.name, up)
         EXCEPT !.roitype = roitype,
                !.y1 = y0, !.yd = y0, !.x1 = x0, !.xd = x0,
                !.y2 = y1, !.x2 = x1,
                !.widthd = x1 - x0, !.heightd = y1 - y0]

\* shape_to_roi, rotated ellipse: the end points of the axis are the middles
\* of the edges 0-1 and 2-3, the packed ratio is b / a; the 72 points
\* sampled on the ellipse go to frompoints (of them only the bounds are
\* kept, those of the corners standing for them)
EllipseToRoi(shape, byteorder, up) ==
    LET d == shape.data
    IN  [frompoints(Range(Xs(d)), Range(Ys(d)), shape.name, up)
         EXCEPT !.roitype = "FREEHAND", !.subtype = "ELLIPSE",
                !.byteorder = byteorder,
                !.x1 = Mean2(d[1][2], d[2][2]), !.y1 = Mean2(d[1][1], d[2][1]),
                !.x2 = Mean2(d[3][2], d[4][2]), !.y2 = Mean2(d[3][1], d[4][1]),
                !.packed = encode_rotated_roi_width(
                               Float32Bits(Ratio(Dist2(d[1], d[2]), Dist2(d[2], d[3]))),
                               byteorder)]

\* the test "not rotated" of shape_to_roi
NotRotated(d) == d[1][1] = d[2][1] \/ d[1][2] = d[2][2]

\* the kinds shape_to_roi has a branch for; any other kind reaches
\* raise ValueError
SupportedKinds == {"rectangle", "line", "path", "polygon", "ellipse"}

\* shape_to_roi for a shape of one of these kinds
shape_to_roi(shape, byteorder, up) ==
    CASE shape.shape_type = "rectangle" ->
            IF NotRotated(shape.data) THEN BoxToRoi(shape, "RECT", up)
            ELSE RotatedRectToRoi(shape, byteorder, up)
      [] shape.shape_type = "line" -> LineToRoi(shape, up)
      [] shape.shape_type = "path" -> PointsToRoi(shape, "POLYLINE", up)
      [] shape.shape_type = "polygon" -> PointsToRoi(shape, "POLYGON", up)
      [] shape.shape_type = "ellipse" ->
            IF NotRotated(shape.data) THEN BoxToRoi(shape, "OVAL", up)
            ELSE EllipseToRoi(shape, byteorder, up)

\* roi_to_shape, RECT and OVAL: the corners of the box read from the float
\* fields or from the integer bounds, minus 0.5
RoiToBox(ijroi, kind) ==
    LET x == IF ijroi.subpixelresolution THEN ijroi.xd ELSE ijroi.left
        y == IF ijroi.subpixelresolution THEN ijroi.yd ELSE ijroi.top
        width == IF ijroi.subpixelresolution THEN ijroi.widthd
                 ELSE ijroi.right - ijroi.left
        height == IF ijroi.subpixelresolution THEN ijroi.heightd
                  ELSE ijroi.bottom - ijroi.top
    IN  [data |-> << <<y - Half, x - Half>>, <<y - Half, x + width - Half>>,
                     <<y + height - Half, x + width - Half>>,
                     <<y + height - Half, x - Half>> >>,
         shape_type |-> kind, name |-> ijroi.name]

\* roi_to_shape, subtype ELLIPSE: start and end are the stored end points
\* minus 1, the lateral vector is the longitudinal one turned by 90 degrees
\* and scaled by the ratio
RoiToEllipse(ijroi) ==
    LET ratio == Float32Value(decode_rotated_roi_width(ijroi.packed, ijroi.byteorder))
        start == <<ijroi.y1 - Pixel, ijroi.x1 - Pixel>>
        end == <<ijroi.y2 - Pixel, ijroi.x2 - Pixel>>
        half_lateral == <<((start[2] - end[2]) * ratio.p) \div (2 * ratio.q),
                          ((end[1] - start[1]) * ratio.p) \div (2 * ratio.q)>>
    IN  [data |-> << <<start[1] - half_lateral[1], start[2] - half_lateral[2]>>,
                     <<start[1] + half_lateral[1], start[2] + half_lateral[2]>>,
                     <<end[1] + half_lateral[1], end[2] + half_lateral[2]>>,
                     <<end[1] - half_lateral[1], end[2] - half_lateral[2]>> >>,
         shape_type |-> "ellipse", name |-> ijroi.name]

\* _get_coords: the stored points, or the integer ones plus (left, top),
\* with the axes swapped to <<y, x>>
GetCoords(ijroi) ==
    IF ijroi.subpixelresolution
    THEN [i \in 1..Len(ijroi.subpixel_coordinates) |->
            <<ijroi.subpixel_coordinates[i][2], ijroi.subpixel_coordinates[i][1]>>]
    ELSE [i \in 1..Len(ijroi.integer_coordinates) |->
            <<ijroi.integer_coordinates[i][2] + ijroi.top,
              ijroi.integer_coordinates[i][1] + ijroi.left>>]

\* RoiTuple(data=_get_coords(ijroi), shape_type=kind, name=name)
RoiToPoints(ijroi, kind) ==
    [data |-> GetCoords(ijroi), shape_type |-> kind, name |-> ijroi.name]

\* roi_to_shape, LINE: data = [start, end]
RoiToLine(ijroi) ==
    [data |-> << <<ijroi.y1, ijroi.x1>>, <<ijroi.y2, ijroi.x2>> >>,
     shape_type |-> "line", name |-> ijroi.name]

\* what roi_to_shape gives: [some, shape, warned, err], with some = FALSE
\* for the None of POINT and for an exception, which err names
NoShape == [data |-> <<>>, shape_type |-> "", name |-> ""]

Converted(shape) ==
    [some |-> TRUE, shape |-> shape, warned |-> FALSE, err |-> NoErr]

\* roi_to_shape
roi_to_shape(ijroi) ==
    CASE ijroi.subtype = "UNDEFINED" /\ ijroi.roitype = "RECT" ->
            Converted(RoiToBox(ijroi, "rectangle"))
      [] ijroi.subtype = "UNDEFINED" /\ ijroi.roitype = "LINE" ->
            Converted(RoiToLine(ijroi))
      [] ijroi.subtype = "UNDEFINED" /\ ijroi.roitype = "POINT" ->
            [some |-> FALSE, shape |-> NoShape, warned |-> TRUE, err |-> NoErr]
      [] ijroi.subtype = "UNDEFINED" /\ ijroi.roitype \in {"POLYGON", "FREEHAND"} ->
            Converted(RoiToPoints(ijroi, "polygon"))
      [] ijroi.subtype = "UNDEFINED" /\ ijroi.roitype \in {"POLYLINE", "FREELINE"} ->
            Converted(RoiToPoints(ijroi, "path"))
      [] ijroi.subtype = "UNDEFINED" /\ ijroi.roitype = "OVAL" ->
            Converted(RoiToBox(ijroi, "ellipse"))
      [] ijroi.subtype = "ROTATED_RECT" ->
            Converted(RoiToPoints(ijroi, "rectangle"))
      [] ijroi.subtype = "ELLIPSE" ->
            Converted(RoiToEllipse(ijroi))
      [] OTHER ->
            [some |-> FALSE, shape |-> NoShape, warned |-> FALSE, err |-> "ValueError"]

\* read_ij_roi, shapes = [roi_to_shape(roi) for roi in ijrois], as the loop
\* uses them: the kind of each shape ("point" for None) and its position,
\* which stands for its coordinates
ConvertedRecords(ijrois) ==
    [i \in 1..Len(ijrois) |->
        [kind |-> IF roi_to_shape(ijrois[i]).some
                  THEN roi_to_shape(ijrois[i]).shape.shape_type ELSE "point",
         shape |-> i]]

\* read_ij_roi with a loop that adds whatever the conversion left
ReadIjRoisUnchecked(s, ijrois) == ReadIjRoi(s, ConvertedRecords(ijrois))

\* read_ij_roi of the records roiread gave: every record is converted
\* before the first shape is added, so an exception of roi_to_shape leaves
\* before the loop
ReadIjRois(s, ijrois) ==
    IF \E i \in 1..Len(ijrois) : roi_to_shape(ijrois[i]).err # NoErr
    THEN Raise(s, "ValueError")
    ELSE ReadIjRoi(s, ConvertedRecords(ijrois))

\* ------------------------------------------------------------- the actions
\* the selections a user makes on the index set S
SelChoices(S) == {X \in SUBSET S : Cardinality(X) <= MaxSel} \cup {S}

\* history: the operation just performed and the inputs it was given
NoBase == [ok |-> FALSE, data |-> <<>>, shape_type |-> <<>>, count |-> 0, n |-> 0]

Op(name) ==
    [op |-> name, sel |-> {}, cur |-> None, append |-> TRUE, loaded |-> <<>>,
     out |-> <<>>, skipped |-> 0, val |-> [bool |-> TRUE, val |-> 1],
     base |-> NoBase]

\* history: the run "register m shapes, hide, register n more, show" from
\* the empty manager; phase A before the hide, B after it, C after the show
ScenOff == [phase |-> "off", seq |-> <<>>, m |-> 0]

ScenAfter(name, b) ==
    IF scen.phase \notin {"A", "B"} THEN ScenOff
    ELSE IF name = "add" THEN scen
    ELSE IF name = "register"
         THEN IF current_item = None THEN scen
              ELSE IF current_item >= Len(data) THEN ScenOff
              ELSE [scen EXCEPT !.seq = Append(@, data[current_item + 1]),
                                !.m = IF scen.phase = "A" THEN @ + 1 ELSE @]
    ELSE IF name = "show_all"
         THEN IF b = show_all THEN scen
              ELSE IF current_item # None THEN ScenOff
              ELSE [scen EXCEPT !.phase = IF b THEN "C" ELSE "B"]
    ELSE ScenOff

Commit(s) ==
    /\ steps < MaxSteps
    /\ steps' = steps + 1
    /\ data' = s.data
    /\ shape_type' = s.shape_type
    /\ features' = s.features
    /\ feature_defaults' = s.feature_defaults
    /\ selected_data' = s.selected_data
    /\ current_item' = s.current_item
    /\ show_all' = s.show_all
    /\ hidden' = s.hidden
    /\ text_visible' = s.text_visible
    /\ rows' = s.rows
    /\ list_sel' = s.list_sel
    /\ announced' = s.announced
    /\ emitted' = s.emitted
    /\ err' = s.err
    /\ paused' = s.paused
    /\ reentered' = s.reentered
    /\ UNCHANGED <<subject, encoded, decoded>>

\* no conversion in progress
Idle == [tag |-> "idle"]

\* the state after QRoiManager.__init__
InitManager ==
    /\ data = <<>>
    /\ shape_type = <<>>
    /\ features = <<>>
    /\ feature_defaults = 0
    /\ selected_data = {}
    /\ current_item = None
    /\ show_all = TRUE
    /\ hidden = HiddenInit
    /\ text_visible = FALSE
    /\ rows = <<>>
    /\ list_sel = {}
    /\ announced = {}
    /\ emitted = <<>>
    /\ scen = [phase |-> "A", seq |-> <<>>, m |-> 0]
    /\ file = NoFile
    /\ last_op = Op("init")
    /\ next_id = 0
    /\ steps = 0
    /\ err = NoErr
    /\ paused = 0
    /\ reentered = FALSE

Init ==
    /\ InitManager
    /\ subject = Idle
    /\ encoded = Idle
    /\ decoded = Idle

\* QRoiManager.add / a shape drawn on the canvas
Add ==
    \E kind \in DrawKinds(next_id) :
        /\ next_id < MaxShapes
        /\ Len(data) < MaxLive
        /\ Commit(ShapesAdd(State, next_id, kind))
        /\ next_id' = next_id + 1
        /\ last_op' = Op("add")
        /\ scen' = ScenAfter("add", TRUE)
        /\ UNCHANGED file

\* register_roi (the Add button, the "t" key, QRoiManager.register)
Register ==
    /\ Len(rows) < MaxLive
    /\ ~show_all => Len(hidden.data) < MaxLive
    /\ Commit(RegisterRoi(State))
    /\ last_op' = [Op("register") EXCEPT !.sel = selected_data,
                                         !.cur = current_item]
    /\ scen' = ScenAfter("register", TRUE)
    /\ UNCHANGED <<file, next_id>>

\* QRoiManager.select / a click on shapes of the canvas
Select ==
    \E X \in SelChoices(Indices(data)) :
        /\ X # selected_data
        /\ Commit(ShapesSetSelected(State, X))
        /\ last_op' = Op("select")
        /\ scen' = ScenOff
        /\ UNCHANGED <<file, next_id>>

\* QRoiManager.remove(): remove_selected of the layer
RemoveSelected ==
    /\ Commit(LayerRemoveSelected(State))
    /\ last_op' = [Op("remove_selected") EXCEPT !.sel = selected_data,
                                                !.cur = current_item]
    /\ scen' = ScenOff
    /\ UNCHANGED <<file, next_id>>

\* the Remove button: remove_selected of the layer with show_all, the
\* selected rows of the list without
RemoveButton ==
    /\ Commit(RemoveButtonClicked(State))
    /\ last_op' = IF show_all
                  THEN [Op("remove_button") EXCEPT !.sel = selected_data,
                                                   !.cur = current_item]
                  ELSE [Op("remove_rows") EXCEPT !.sel = list_sel]
    /\ scen' = ScenOff
    /\ UNCHANGED <<file, next_id>>

\* the user changes the selected rows of the list widget
SelectRows ==
    \E X \in SelChoices(Indices(rows)) :
        /\ X # list_sel
        /\ Commit(RoiSelected([State EXCEPT !.list_sel = X], X))
        /\ last_op' = Op("select_rows")
        /\ scen' = ScenOff
        /\ UNCHANGED <<file, next_id>>

\* the values assigned to show_all: True, False, and the integers 1 and 0
ShowAllValues == [bool : BOOLEAN, val : {0, 1}]

\* layer.show_all = v (the Show All checkbox, QRoiManager.set_show_all);
\* base is the state a run of consecutive assignments started from, when
\* that state had show_all = True and no current item, and n the number of
\* assignments of the run that changed the value
SetShowAll ==
    \E v \in ShowAllValues :
        /\ (v.bool /\ Truth(v) /\ ~show_all) => Len(hidden.data) + Len(data) <= MaxLive
        /\ Commit(ShowAllSetter(State, v))
        /\ last_op' =
             [Op("show_all") EXCEPT !.val = v, !.base =
                 LET n == IF v.bool /\ Truth(v) # show_all THEN 1 ELSE 0
                 IN  IF last_op.op = "show_all"
                     THEN [last_op.base EXCEPT !.n = IF last_op.base.ok THEN @ + n ELSE 0]
                     ELSE IF show_all /\ current_item = None
                          THEN [ok |-> TRUE, data |-> data, shape_type |-> shape_type,
                                count |-> RoiCount(State), n |-> n]
                          ELSE NoBase]
        /\ scen' = ScenAfter("show_all", IF v.bool THEN Truth(v) ELSE show_all)
        /\ UNCHANGED <<file, next_id>>

\* the mode setter of the layer
Mode ==
    /\ Commit(SetMode(State))
    /\ last_op' = Op("mode")
    /\ scen' = ScenOff
    /\ UNCHANGED <<file, next_id>>

\* load_roiset(path, append): .zip / .roi go to read_ij_roi, which takes no
\* append argument; anything else goes to update_from_json
LoadRoiset(s, f, append) ==
    IF f.fmt = "zip" THEN ReadIjRoi(s, IjRecords(f))
    ELSE UpdateFromJson(s, f, append)

\* the shapes of a file that a load is to bring in
Loadable(f) ==
    LET keep == {i \in 1..Len(f.data) : f.shape_type[i] # "point"}
    IN  RemoveIdx(f.data, {i - 1 : i \in (1..Len(f.data)) \ keep})

\* load_roiset of a sample JSON file
LoadJsonSample ==
    \E n \in 1..MaxLoad, has_names \in BOOLEAN, append \in BOOLEAN :
        /\ next_id + n <= MaxShapes
        /\ Len(data) + n <= MaxLive
        /\ Len(rows) + n <= MaxLive
        /\ Commit(LoadRoiset(State, SampleJson(n, has_names), append))
        /\ next_id' = next_id + n
        /\ last_op' = [Op("load_json") EXCEPT
                          !.append = append,
                          !.loaded = Loadable(SampleJson(n, has_names))]
        /\ scen' = ScenOff
        /\ UNCHANGED file

\* load_roiset of a sample ImageJ archive
LoadIjSample ==
    \E n \in 1..MaxLoad, with_point \in BOOLEAN, append \in BOOLEAN :
        /\ next_id + n <= MaxShapes
        /\ Len(data) + n <= MaxLive
        /\ Len(rows) + n <= MaxLive
        /\ Commit(LoadRoiset(State, SampleIj(n, with_point), append))
        /\ next_id' = next_id + n
        /\ last_op' = [Op("load_ij") EXCEPT
                          !.append = append,
                          !.skipped = IF with_point THEN 1 ELSE 0,
                          !.loaded = Loadable(SampleIj(n, with_point))]
        /\ scen' = ScenOff
        /\ UNCHANGED file

\* load_roiset of the file written by the last save_roiset
LoadSaved ==
    \E append \in BOOLEAN :
        /\ file.fmt # "none"
        /\ Len(data) + Len(file.data) <= MaxLive
        /\ Len(rows) + Len(file.data) <= MaxLive
        /\ Commit(LoadRoiset(State, file, append))
        /\ last_op' = [Op("load_saved") EXCEPT !.append = append,
                                               !.loaded = Loadable(file)]
        /\ scen' = ScenOff
        /\ UNCHANGED <<file, next_id>>

\* save_roiset(path) with a JSON path: write_json
SaveJson ==
    LET s == GetRoiDataState(State)
        r == GetRoiDataResult(State)
    IN  /\ Commit(s)
        /\ file' = IF s.err = NoErr
                   THEN [fmt |-> "json", data |-> r.data, shape_type |-> r.shape_type,
                         has_names |-> TRUE, n_names |-> r.n_names]
                   ELSE file
        /\ last_op' = [Op("save_json") EXCEPT !.out = IF s.err = NoErr THEN r.data ELSE <<>>]
        /\ scen' = ScenOff
        /\ UNCHANGED next_id

\* save_roiset(path) with a .zip path: write_ij_roi unlinks the path, then
\* converts get_roi_data().iter_shapes(), which reads names[i] for every shape
SaveIj ==
    LET s0 == GetRoiDataState(State)
        r == GetRoiDataResult(State)
        s == IF s0.err = NoErr /\ r.n_names < Len(r.data)
             THEN Raise(s0, "IndexError") ELSE s0
    IN  /\ Commit(s)
        /\ file' = IF s.err = NoErr
                   THEN [fmt |-> "zip", data |-> r.data, shape_type |-> r.shape_type,
                         has_names |-> TRUE, n_names |-> Len(r.data)]
                   ELSE IF file.fmt = "zip" THEN NoFile ELSE file
        /\ last_op' = [Op("save_ij") EXCEPT !.out = IF s.err = NoErr THEN r.data ELSE <<>>]
        /\ scen' = ScenOff
        /\ UNCHANGED next_id

\* as_shapes_layer (the To Shapes button)
ToShapes ==
    LET s == GetRoiDataState(State)
        r == GetRoiDataResult(State)
    IN  /\ Commit(s)
        /\ last_op' = [Op("to_shapes") EXCEPT !.out = IF s.err = NoErr THEN r.data ELSE <<>>]
        /\ scen' = ScenOff
        /\ UNCHANGED <<file, next_id>>

\* the operations on the collection in memory
Next ==
    \/ Add
    \/ Register
    \/ Select
    \/ RemoveSelected
    \/ RemoveButton
    \/ SelectRows
    \/ SetShowAll
    \/ Mode
    \/ LoadJsonSample
    \/ LoadIjSample
    \/ ToShapes

Spec == Init /\ [][Next]_vars

\* drawing, registering and toggling together with saving and loading back
NextIO ==
    \/ Add
    \/ Register
    \/ SetShowAll
    \/ LoadSaved
    \/ SaveJson
    \/ SaveIj

SpecIO == Init /\ [][NextIO]_vars

\* ------------------------------------------------------- the conversions
\* the variables of the manager, which the conversions do not touch
manager_vars ==
    <<data, shape_type, features, feature_defaults, selected_data,
      current_item, show_all, hidden, text_visible, rows, list_sel,
      announced, emitted, scen, file, last_op, next_id, steps, err,
      paused, reentered>>

\* sample coordinate arrays (a line, two polygons) and the kind of each
SampleArrays ==
    {[shape |-> <<2, 2>>, flat |-> <<0, 0, 1, 2>>],
     [shape |-> <<3, 2>>, flat |-> <<0, 0, 0, 2, 2, 1>>],
     [shape |-> <<3, 2>>, flat |-> <<1, 1, 1, 3, 2, 0>>]}

KindOfArray(a) == IF a.shape[1] = 2 THEN "line" ELSE "polygon"

SampleName(i) == IF i % 2 = 1 THEN "ROI-0000" ELSE "cell"

\* the collections of up to MaxColl sample arrays, with and without names
MaxColl == 2

SampleCollections ==
    {[data |-> d,
      shape_type |-> [i \in 1..Len(d) |-> KindOfArray(d[i])],
      names |-> IF has_names
                THEN [some |-> TRUE, val |-> [i \in 1..Len(d) |-> SampleName(i)]]
                ELSE NoNames] :
        d \in UNION {[1..n -> SampleArrays] : n \in 0..MaxColl},
        has_names \in BOOLEAN}

\* the collections whose names are a list of up to MaxNames names, whatever
\* the number of shapes
MaxNames == 3

SampleNamed ==
    {[data |-> d,
      shape_type |-> [i \in 1..Len(d) |-> KindOfArray(d[i])],
      names |-> [some |-> TRUE, val |-> [i \in 1..k |-> SampleName(i)]]] :
        d \in UNION {[1..n -> SampleArrays] : n \in 0..MaxColl},
        k \in 0..MaxNames}

\* the bytes the sample floats and triples are made of: 4 of them are the
\* 32 bits of a float (most significant first), 2 of them a 16 bit integer
SampleBytes == {0, 1, 63, 127, 128, 192, 255}

\* Python floats held by 32 bit floats, among them zeros, subnormals, 0.5,
\* infinities and NaNs
SampleFloats ==
    {Quiet(BitsOf(<<a, b, c, d>>, ">")) : a, b, c, d \in SampleBytes}

\* triples (u8, u8, i16)
SampleTriples ==
    {<<a, b, IF c >= 128 THEN c * 256 + d - 65536 ELSE c * 256 + d>> :
        a, b, c, d \in SampleBytes}

\* the rectangles and ellipses that are not rotated: origin and sides in
\* half pixels, the corners listed along the row first or along the column
\* first
MaxOrigin == 1

MaxSide == 4

SampleBoxes ==
    {[data |-> IF row_first
               THEN << <<y, x>>, <<y, x + w>>, <<y + h, x + w>>, <<y + h, x>> >>
               ELSE << <<y, x>>, <<y + h, x>>, <<y + h, x + w>>, <<y, x + w>> >>,
      shape_type |-> kind, name |-> SampleName(1)] :
        y \in -1..MaxOrigin, x \in -1..MaxOrigin, h \in 2..MaxSide, w \in 2..MaxSide,
        row_first \in BOOLEAN, kind \in {"rectangle", "ellipse"}}

\* the rotated ellipses: the axis goes from start by the vector v, the
\* corners lie beside its end points at half the lateral vector, which is v
\* turned by 90 degrees and scaled by the ratio r; flip lists them from the
\* other side
SampleAxes == {<<4, 4>>, <<4, -4>>, <<8, 4>>}

SampleEllipses ==
    {LET hl == <<(IF flip THEN 1 ELSE -1) * ((v[2] * r.p) \div (2 * r.q)),
                 (IF flip THEN -1 ELSE 1) * ((v[1] * r.p) \div (2 * r.q))>>
     IN  [data |-> << <<y - hl[1], x - hl[2]>>, <<y + hl[1], x + hl[2]>>,
                      <<y + v[1] + hl[1], x + v[2] + hl[2]>>,
                      <<y + v[1] - hl[1], x + v[2] - hl[2]>> >>,
          shape_type |-> "ellipse", name |-> SampleName(2)] :
        y \in -1..MaxOrigin, x \in -1..MaxOrigin, v \in SampleAxes,
        r \in SampleRatios, flip \in BOOLEAN}

\* the rotated rectangles: from the corner (y, x) along the edge a, then
\* along the edge b at a right angle to it; lengths 10 and 5 half pixels
SampleRotated ==
    {[data |-> << <<y, x>>, <<y + e.a[1], x + e.a[2]>>,
                  <<y + e.a[1] + e.b[1], x + e.a[2] + e.b[2]>>,
                  <<y + e.b[1], x + e.b[2]>> >>,
      shape_type |-> "rectangle", name |-> SampleName(3)] :
        y \in -1..MaxOrigin, x \in -1..MaxOrigin,
        e \in {[a |-> <<6, 8>>, b |-> <<-4, 3>>], [a |-> <<3, 4>>, b |-> <<8, -6>>],
               [a |-> <<8, -6>>, b |-> <<3, 4>>]}}

\* the lines, paths and polygons: two or three different points
Different(n) ==
    {d \in [1..n -> {<<0, 0>>, <<1, 3>>, <<4, -1>>, <<2, 2>>}] :
        \A i, j \in 1..n : d[i] = d[j] => i = j}

SamplePointLists ==
    {[data |-> d, shape_type |-> "line", name |-> SampleName(4)] : d \in Different(2)}
    \cup {[data |-> d, shape_type |-> kind, name |-> SampleName(5)] :
            d \in Different(3), kind \in {"path", "polygon"}}

\* shapes of a kind shape_to_roi has no branch for
SampleOtherKinds ==
    {[data |-> d, shape_type |-> kind, name |-> SampleName(6)] :
        d \in Different(2), kind \in {"points", "vectors"}}

\* ROI_TYPE and ROI_SUBTYPE of roifile
RoiTypes ==
    {"POLYGON", "RECT", "OVAL", "LINE", "FREELINE", "POLYLINE", "NOROI",
     "FREEHAND", "TRACED", "ANGLE", "POINT"}

RoiSubtypes == {"UNDEFINED", "TEXT", "ARROW", "ELLIPSE", "IMAGE", "ROTATED_RECT"}

\* the records of a file: every type with every subtype, over one list of
\* vertices, with and without sub-pixel resolution; the end points are set
\* and the packed fields hold the ratio 1 / 2
SampleRecords ==
    {[FromPointList(<< <<0, 0>>, <<1, 3>>, <<4, -1>> >>, SampleName(7), TRUE)
      EXCEPT !.roitype = ty, !.subtype = sub, !.subpixelresolution = res,
             !.x2 = 4, !.y2 = 2,
             !.packed = encode_rotated_roi_width(Float32Bits([p |-> 1, q |-> 2]), ">")] :
        ty \in RoiTypes, sub \in RoiSubtypes, res \in BOOLEAN}

\* the archives: MaxBatch records among a polygon, a point, a line, a
\* rotated rectangle and two that roi_to_shape does not support
MaxBatch == 2

SampleBatches ==
    {b \in [1..MaxBatch -> {r \in SampleRecords : r.subpixelresolution}] :
        \A i \in 1..MaxBatch :
            <<b[i].roitype, b[i].subtype>> \in
                {<<"POLYGON", "UNDEFINED">>, <<"POINT", "UNDEFINED">>,
                 <<"LINE", "UNDEFINED">>, <<"FREEHAND", "ROTATED_RECT">>,
                 <<"ANGLE", "UNDEFINED">>, <<"RECT", "TEXT">>}}

InitCodec ==
    /\ InitManager
    /\ subject \in {[tag |-> "collection", c |-> c] : c \in SampleCollections}
                 \cup {[tag |-> "named", c |-> c] : c \in SampleNamed}
                 \cup {[tag |-> "float", w |-> w] : w \in SampleFloats}
                 \cup {[tag |-> "triple", ints |-> ints] : ints \in SampleTriples}
                 \cup {[tag |-> "shape", shape |-> sh] : sh \in SampleBoxes}
                 \cup {[tag |-> "shape", shape |-> sh] : sh \in SampleEllipses}
                 \cup {[tag |-> "shape", shape |-> sh] : sh \in SampleRotated}
                 \cup {[tag |-> "shape", shape |-> sh] : sh \in SamplePointLists}
                 \cup {[tag |-> "shape", shape |-> sh] : sh \in SampleOtherKinds}
                 \cup {[tag |-> "record", roi |-> r] : r \in SampleRecords}
                 \cup {[tag |-> "batch", rois |-> b] : b \in SampleBatches}
    /\ encoded = Idle
    /\ decoded = Idle

\* write_json: js = get_roi_data().to_json_dict()
ToJson ==
    /\ subject.tag = "collection"
    /\ encoded = Idle
    /\ encoded' = [tag |-> "json", js |-> ToJsonDict(subject.c)]
    /\ UNCHANGED <<subject, decoded, manager_vars>>

\* update_from_json: rois = RoiData.from_json_dict(js)
FromJson ==
    /\ encoded.tag = "json"
    /\ decoded = Idle
    /\ decoded' = [tag |-> "collection", c |-> FromJsonDict(encoded.js)]
    /\ UNCHANGED <<subject, encoded, manager_vars>>

\* write_ij_roi: get_roi_data().iter_shapes(), consumed by the list
\* comprehension
IterShapes ==
    /\ subject.tag \in {"collection", "named"}
    /\ encoded = Idle
    /\ decoded = Idle
    /\ decoded' = [tag |-> "tuples", r |-> iter_shapes(subject.c)]
    /\ UNCHANGED <<subject, encoded, manager_vars>>

\* write_ij_roi: shape_to_roi(shape); byteorder is roi.byteorder, up the
\* way the bounds are made integers, and sub the subpixelresolution that
\* roi_to_shape will read on the record; a kind without a branch ends in
\* raise ValueError
Encode ==
    \E byteorder \in {">", "<"}, up \in BOOLEAN, sub \in BOOLEAN :
        /\ subject.tag = "shape"
        /\ encoded = Idle
        /\ encoded' = IF subject.shape.shape_type \in SupportedKinds
                      THEN [tag |-> "roi",
                            roi |-> [shape_to_roi(subject.shape, byteorder, up)
                                     EXCEPT !.subpixelresolution = sub]]
                      ELSE [tag |-> "error", err |-> "ValueError"]
        /\ UNCHANGED <<subject, decoded, manager_vars>>

\* read_ij_roi: roi_to_shape(roi), of the record shape_to_roi made or of a
\* record of a file
Decode ==
    \/ /\ encoded.tag = "roi"
       /\ decoded = Idle
       /\ decoded' = [tag |-> "shape", r |-> roi_to_shape(encoded.roi)]
       /\ UNCHANGED <<subject, encoded, manager_vars>>
    \/ /\ subject.tag = "record"
       /\ decoded = Idle
       /\ decoded' = [tag |-> "shape", r |-> roi_to_shape(subject.roi)]
       /\ UNCHANGED <<subject, encoded, manager_vars>>

\* load_roiset of an archive into the manager as constructed
ReadBatch ==
    /\ subject.tag = "batch"
    /\ steps = 0
    /\ Commit(ReadIjRois(State, subject.rois))
    /\ last_op' = [Op("read_ij_roi") EXCEPT !.append = TRUE]
    /\ scen' = ScenOff
    /\ UNCHANGED <<file, next_id>>

\* encode_rotated_roi_width, applied to a float or to the float that
\* decode_rotated_roi_width made of a triple
EncodeWidth ==
    \/ \E byteorder \in {">", "<"} :
          /\ subject.tag = "float"
          /\ encoded = Idle
          /\ encoded' = [tag |-> "ints", byteorder |-> byteorder,
                         ints |-> encode_rotated_roi_width(subject.w, byteorder)]
          /\ UNCHANGED <<subject, decoded, manager_vars>>
    \/ /\ encoded.tag = "width"
       /\ decoded = Idle
       /\ decoded' = [tag |-> "triple",
                      ints |-> encode_rotated_roi_width(encoded.w, encoded.byteorder)]
       /\ UNCHANGED <<subject, encoded, manager_vars>>

\* decode_rotated_roi_width, applied to a triple or to the triple that
\* encode_rotated_roi_width made of a float
DecodeWidth ==
    \/ \E byteorder \in {">", "<"} :
          /\ subject.tag = "triple"
          /\ encoded = Idle
          /\ encoded' = [tag |-> "width", byteorder |-> byteorder,
                         w |-> decode_rotated_roi_width(subject.ints, byteorder)]
          /\ UNCHANGED <<subject, decoded, manager_vars>>
    \/ /\ encoded.tag = "ints"
       /\ decoded = Idle
       /\ decoded' = [tag |-> "float",
                      w |-> decode_rotated_roi_width(encoded.ints, encoded.byteorder)]
       /\ UNCHANGED <<subject, encoded, manager_vars>>

NextCodec ==
    \/ ToJson
    \/ FromJson
    \/ IterShapes
    \/ EncodeWidth
    \/ DecodeWidth
    \/ Encode
    \/ Decode
    \/ ReadBatch

SpecCodec == InitCodec /\ [][NextCodec]_vars

\* ---------------------------------------------------------- the properties
\* the collection that is the source of truth: the live sequence with
\* show_all, the hidden buffer without
Collection == IF show_all THEN data ELSE hidden.data

\* the operations that are said never to remove a registered ROI
KeepOps == {"add", "register", "select_rows", "show_all", "to_shapes"}

\* C1: current_item is None or a valid index of the live sequence
C1_CurrentItemValid ==
    current_item = None \/ (0 <= current_item /\ current_item < Len(data))

\* C2: a shape roi_added was emitted for, once in the source-of-truth
\* collection, is still in it after drawing, registering, selecting a list
\* row, assigning show_all or exporting
C2_RegisteredStays ==
    [][last_op'.op \in KeepOps =>
          (announced \cap Range(Collection)) \subseteq Range(Collection')]_vars

\* C3: from the empty manager, registering m shapes, hiding, registering n
\* more and showing again leaves exactly the m + n registered shapes in the
\* live sequence, in registration order
C3_HideRegisterShow ==
    scen.phase = "C" => (Len(data) = Len(scen.seq) /\ data = scen.seq)

\* C4: roi_count() equals the number of rows of the list widget
C4_CountIsRows == RoiCount(State) = Len(rows)

C6_IdsAreARange == features = ARange(Len(data))

\* C7: with show_all = True the hidden buffer holds no shape
C7_HiddenEmptyWhenShown == show_all => Len(hidden.data) = 0

\* C8: when remove_selected (of the layer, or of the Remove button with
\* show_all) removes the selected index set R from the live sequence while
\* current_item = c, current_item becomes None if c is in R, and c minus the
\* number of elements of R below c otherwise; None stays None
C8_Expected(c, R) ==
    IF c = None THEN None
    ELSE IF c \in R THEN None
    ELSE c - Cardinality({r \in R : r < c})

C8_CurrentItemShift ==
    (last_op.op \in {"remove_selected", "remove_button"} /\ err = NoErr) =>
        current_item = C8_Expected(last_op.cur, last_op.sel)

C8_Witness ==
    /\ last_op.op = "remove_selected" /\ err = NoErr
    /\ last_op.cur = 3 /\ last_op.sel = {0, 1}
    /\ Len(data) = 2 /\ current_item = 1

\* C9: with show_all = True the live sequence holds at most one shape that
\* roi_added was never emitted for
C9_OneUncommitted ==
    show_all => Cardinality({i \in 1..Len(data) : data[i] \notin announced}) <= 1

\* C10: after load_roiset with append = False the collection holds exactly
\* the loaded ROIs, whatever the format of the file
C10_LoadReplaces ==
    (last_op.op \in {"load_json", "load_ij", "load_saved"}
     /\ ~last_op.append /\ err = NoErr) =>
        /\ Collection = last_op.loaded
        /\ RoiCount(State) = Len(last_op.loaded)

\* the shapes of a sequence that roi_added has been emitted for, in order
Registered(seq) ==
    RemoveIdx(seq, {i - 1 : i \in {j \in 1..Len(seq) : seq[j] \notin announced}})

\* C11: an export (as_shapes_layer, save_roiset) that does not raise gives
\* roi_count() shapes: the registered ROIs of the source-of-truth collection
\* in order, without the shape of current_item
ExportOps == {"to_shapes", "save_json", "save_ij"}

C11_ExportIsRegistered ==
    [][(last_op'.op \in ExportOps /\ err' = NoErr) =>
          /\ Len(last_op'.out) = RoiCount(State)
          /\ last_op'.out = Registered(Collection)
          /\ (current_item # None /\ current_item < Len(data)) =>
                 data[current_item + 1] \notin Range(last_op'.out)]_vars
\* C12: from_json_dict(to_json_dict(c)) is c: the same shapes with the same
\* coordinates, the same kinds, the same names, and no names when c has none
C12_JsonRoundTrip ==
    decoded.tag = "collection" => decoded.c = subject.c

C12_Witness ==
    /\ decoded.tag = "collection"
    /\ Len(subject.c.data) = 2
    /\ subject.c.data[1].shape # subject.c.data[2].shape
    /\ ~subject.c.names.some
    /\ ~decoded.c.names.some
\* C13: for a rectangle or an ellipse that is not rotated, roi_to_shape of
\* shape_to_roi gives the 4 corners of the shape again, whether the record
\* is read through its integer bounds or through its float fields
C13_BoxRoundTrip ==
    (subject.tag = "shape" /\ decoded.tag = "shape"
     /\ subject.shape.shape_type \in {"rectangle", "ellipse"}
     /\ NotRotated(subject.shape.data)) =>
        /\ decoded.r.some
        /\ Range(decoded.r.shape.data) = Range(subject.shape.data)
\* C14: for a rotated ellipse, roi_to_shape of shape_to_roi gives the
\* ellipse again (the same corners, so the same centre, axes and angle),
\* and the end points of the axis it decodes are the end points that
\* shape_to_roi stored in the record
C14_EllipseRoundTrip ==
    (subject.tag = "shape" /\ decoded.tag = "shape"
     /\ subject.shape.shape_type = "ellipse"
     /\ ~NotRotated(subject.shape.data)) =>
        /\ decoded.r.some
        /\ Range(decoded.r.shape.data) = Range(subject.shape.data)
        /\ Mean2(decoded.r.shape.data[1][1], decoded.r.shape.data[2][1]) = encoded.roi.y1
        /\ Mean2(decoded.r.shape.data[1][2], decoded.r.shape.data[2][2]) = encoded.roi.x1
        /\ Mean2(decoded.r.shape.data[3][1], decoded.r.shape.data[4][1]) = encoded.roi.y2
        /\ Mean2(decoded.r.shape.data[3][2], decoded.r.shape.data[4][2]) = encoded.roi.x2
\* C15: roi_to_shape of a POINT record gives None with a warning, and
\* read_ij_roi of an archive that holds a POINT record beside N supported
\* records raises nothing, appends the N shapes to the live sequence in
\* order and emits roi_added N times (N new rows)
PointRoi == [ImagejRoi EXCEPT !.roitype = "POINT"]

C16_ShowAllRejectsNonBool ==
    [][(last_op'.op = "show_all"
        /\ (~last_op'.val.bool \/ Truth(last_op'.val) = show_all)) =>
          /\ err' = IF last_op'.val.bool THEN NoErr ELSE "TypeError"
          /\ UNCHANGED <<show_all, data, shape_type, features, hidden,
                         current_item, selected_data, text_visible, rows>>]_vars

C16_Witness ==
    /\ last_op.op = "show_all" /\ ~last_op.val.bool /\ ~Truth(last_op.val)
    /\ err = "TypeError"
    /\ show_all /\ Len(data) = 2 /\ current_item = 1 /\ selected_data = {1}
\* C17: with show_all = False the Remove button takes the k selected rows
\* out of the list and the ROIs at those rows out of the hidden buffer, so
\* that roi_count() and the number of rows drop by k; and show_all = True
\* right after it shows exactly the ROIs left (beside the shape of
\* current_item, if there is one), roi_count() staying as it was
C17_RemoveHiddenRows ==
    [][/\ last_op'.op = "remove_rows" =>
            /\ err' = NoErr
            /\ hidden'.data = RemoveIdx(hidden.data, list_sel)
            /\ RoiCount(State)' = RoiCount(State) - Cardinality(list_sel)
            /\ Len(rows') = Len(rows) - Cardinality(list_sel)
       /\ (last_op.op = "remove_rows" /\ ~show_all /\ last_op'.op = "show_all"
           /\ last_op'.val.bool /\ Truth(last_op'.val)) =>
            /\ err' = NoErr
            /\ RemoveIdx(data', IF current_item' = None THEN {} ELSE {current_item'})
                   = hidden.data
            /\ RoiCount(State)' = RoiCount(State)]_vars
\* the number of times x occurs in a sequence
Count(seq, x) == Cardinality({i \in 1..Len(seq) : seq[i] = x})

\* C18: register_roi with current_item an index of the live sequence emits
\* roi_added once, with that index and the kind of that shape, and clears
\* current_item; afterwards the shape is held once: in the live sequence
\* with show_all, in the hidden buffer and no longer in the live sequence
\* without
C18_RegisterCurrent ==
    [][(last_op'.op = "register" /\ current_item # None
        /\ current_item < Len(data)) =>
          /\ err' = NoErr
          /\ emitted' = <<Notification("roi_added", current_item,
                                        shape_type[current_item + 1], {})>>
          /\ current_item' = None
          /\ Count(data', data[current_item + 1])
               + Count(hidden'.data, data[current_item + 1]) = 1
          /\ ~show_all => Count(hidden'.data, data[current_item + 1]) = 1]_vars
\* C19: register_roi without a current item emits no notification and
\* leaves the live sequence, its kinds, the hidden buffer, show_all and
\* current_item as they were; it clears the selection
C19_RegisterNothing ==
    [][(last_op'.op = "register" /\ current_item = None) =>
          /\ err' = NoErr
          /\ emitted' = <<>>
          /\ selected_data' = {}
          /\ UNCHANGED <<data, shape_type, features, hidden, show_all,
                         current_item, rows>>]_vars

C19_Witness ==
    /\ last_op.op = "register" /\ last_op.cur = None /\ last_op.sel = {0, 1}
    /\ err = NoErr /\ emitted = <<>>
    /\ selected_data = {} /\ Len(data) = 2 /\ Len(rows) = 2
\* C20: remove_selected takes the selected indices out of the live sequence
\* and emits roi_removed with them, unless the selection was exactly the
\* current item: then no notification is emitted and the list keeps its rows
C20_RemoveNotifies ==
    [][(last_op'.op \in {"remove_selected", "remove_button"} /\ err' = NoErr) =>
          /\ data' = RemoveIdx(data, selected_data)
          /\ IF selected_data = {current_item}
             THEN emitted' = <<>> /\ rows' = rows
             ELSE emitted' = <<Notification("roi_removed", None, "", selected_data)>>]_vars
\* C21: show_all = False assigned while show_all is True puts the live
\* state into the hidden buffer: with a current item the live sequence is
\* then that one shape, current_item is 0, the selection is {0} and the
\* hidden buffer holds the other shapes in order; without, the live sequence
\* is empty, current_item is None and the hidden buffer holds all shapes
C21_HideSnapshots ==
    [][(last_op'.op = "show_all" /\ last_op'.val.bool /\ ~Truth(last_op'.val)
        /\ show_all) =>
          /\ err' = NoErr
          /\ ~show_all'
          /\ IF current_item # None
             THEN /\ current_item < Len(data)
                  /\ data' = <<data[current_item + 1]>>
                  /\ shape_type' = <<shape_type[current_item + 1]>>
                  /\ current_item' = 0
                  /\ selected_data' = {0}
                  /\ hidden'.data = RemoveIdx(data, {current_item})
                  /\ hidden'.shape_type = RemoveIdx(shape_type, {current_item})
             ELSE /\ data' = <<>>
                  /\ current_item' = None
                  /\ hidden'.data = data
                  /\ hidden'.shape_type = shape_type]_vars
\* C22: show_all = True assigned while show_all is False makes the live
\* sequence hidden.data followed by the live sequence, and the kinds
\* likewise; a current item afterwards is the shape that was the current
\* item before, at its place behind the shapes of the hidden buffer
C22_ShowConcatenates ==
    [][(last_op'.op = "show_all" /\ last_op'.val.bool /\ Truth(last_op'.val)
        /\ ~show_all) =>
          /\ err' = NoErr
          /\ show_all'
          /\ data' = hidden.data \o data
          /\ shape_type' = hidden.shape_type \o shape_type
          /\ current_item' # None =>
                /\ current_item # None
                /\ current_item < Len(data)
                /\ current_item' = Len(hidden.data) + current_item]_vars
\* C23: load_roiset(path, append=True) of a JSON file with N shapes emits N
\* roi_added notifications and nothing else, raises roi_count() by N and
\* leaves current_item None, whatever show_all and current_item were
C23_LoadAppends ==
    [][(last_op'.op = "load_json" /\ last_op'.append) =>
          /\ err' = NoErr
          /\ Len(emitted') = Len(last_op'.loaded)
          /\ \A i \in 1..Len(emitted') : emitted'[i].ev = "roi_added"
          /\ RoiCount(State)' = RoiCount(State) + Len(last_op'.loaded)
          /\ current_item' = None]_vars
\* C24: as_shapes_layer and save_roiset only read: they leave the live
\* sequence, its kinds, the hidden buffer, current_item and the selection
\* as they were, with show_all True or False, with or without a current item
C24_ExportReadsOnly ==
    [][last_op'.op \in {"to_shapes", "save_json", "save_ij"} =>
          UNCHANGED <<data, shape_type, hidden, current_item, selected_data>>]_vars
\* C25: without show_all the drawing area holds the shape being drawn only:
\* in every reachable state with show_all = False the live sequence has at
\* most one shape
C25_PrivateDrawingArea == ~show_all => Len(data) <= 1
\* C26: when a drawn shape has been added (ADDED), it is the last element
\* of the live sequence, current_item is its index and the selection is
\* exactly that index
C26_AddedIsCurrent ==
    [][(last_op'.op = "add" /\ err' = NoErr) =>
          /\ Len(data') >= 1
          /\ data'[Len(data')] = next_id
          /\ current_item' = Len(data') - 1
          /\ selected_data' = {Len(data') - 1}]_vars

C26_Witness ==
    /\ last_op.op = "add" /\ err = NoErr /\ show_all
    /\ Len(data) = 3 /\ Len(rows) = 2
    /\ current_item = 2 /\ selected_data = {2}
\* C27: the scopes that block the data event unblock it however they are
\* left: after every operation, whether it returned or raised, the data
\* event is not blocked
C27_BlockerRestored == paused = 0

\* select rows with a stale current item: _remove_current raised IndexError
\* inside its scope
C27_Witness ==
    /\ last_op.op = "select_rows" /\ err = "IndexError"
    /\ current_item # None /\ current_item >= Len(data)
    /\ paused = 0

\* C28: _on_data_change is never entered while it is running: the removals
\* it makes itself (of the previous current item, of the live shapes without
\* show_all) run with the data event blocked
C28_HandlerNotReentered == ~reentered

\* two shapes drawn one after the other without show_all: the ADDING branch
\* removed the first, as current item and as live shape
C28_Witness ==
    /\ last_op.op = "add" /\ err = NoErr /\ ~reentered
    /\ ~show_all /\ next_id = 2 /\ data = <<1>> /\ current_item = 0
    /\ rows = <<>> /\ hidden.data = <<>>
\* C29: iter_shapes raises IndexError when names is a list whose length is
\* not the number of shapes, shorter or longer; otherwise it yields one
\* record per shape, pairing data[i], shape_type[i] and names[i]
C29_IterShapesChecksNames ==
    decoded.tag = "tuples" =>
        IF subject.c.names.some /\ Len(subject.c.names.val) # Len(subject.c.data)
        THEN decoded.r.err = "IndexError"
        ELSE /\ decoded.r.err = NoErr
             /\ Len(decoded.r.out) = Len(subject.c.data)
             /\ \A i \in 1..Len(subject.c.data) :
                   decoded.r.out[i] =
                       RoiTuple(subject.c.data[i], subject.c.shape_type[i],
                                IF subject.c.names.some
                                THEN [some |-> TRUE, val |-> subject.c.names.val[i]]
                                ELSE NoNames)
\* C30: the packing of the ratio only reinterprets bits: decoding what
\* encode_rotated_roi_width made of a float gives a float with the same 4
\* bytes, and encoding what decode_rotated_roi_width made of a triple
\* (u8, u8, i16) gives the same triple, in both byte orders
C30_PackingReinterprets ==
    /\ decoded.tag = "float" =>
          PackF(decoded.w, encoded.byteorder) = PackF(subject.w, encoded.byteorder)
    /\ decoded.tag = "triple" => decoded.ints = subject.ints
\* C33: HiddenShapes.pop(i) for an index i of the hidden buffer, as the
\* Remove button calls it for one selected row, succeeds: the shape and its
\* kind leave the buffer, which gets one shorter, the feature row of i is
\* dropped and i leaves the selection of the buffer; this also for entries
\* that register_roi appended while show_all was False
C33_PopSucceeds ==
    [][(last_op'.op = "remove_rows" /\ Cardinality(list_sel) = 1
        /\ \A i \in list_sel : i < Len(hidden.data)) =>
          /\ err' = NoErr
          /\ hidden'.data = RemoveIdx(hidden.data, list_sel)
          /\ hidden'.shape_type = RemoveIdx(hidden.shape_type, list_sel)
          /\ Len(hidden'.data) = Len(hidden.data) - 1
          /\ Len(hidden'.features) = Len(hidden.features) - 1
          /\ hidden'.selected_data = hidden.selected_data \ list_sel]_vars
\* C34: every selected index is an index of the live sequence, in every
\* reachable state; so is the selection that show_all = True restores from
\* the hidden buffer, also after ROIs were removed from the buffer
C34_SelectionValid == \A i \in selected_data : i < Len(data)
\* C35: every roi_added notification of an operation carries as index the
\* row that the list appends for it, which is the number of ROIs registered
\* before it; the notifications that follow it in the same operation are
\* roi_added too, so that row is counted back from the rows at the end
C35_AddedIndexIsRow ==
    \A i \in 1..Len(emitted) :
        emitted[i].ev = "roi_added" =>
            emitted[i].index =
                Len(rows) - Cardinality({j \in i..Len(emitted) :
                                            emitted[j].ev = "roi_added"})

\* C31: the codec preserves the kind.  For a shape of each of the five
\* kinds the record made by shape_to_roi carries the pair named for it:
\* RECT or OVAL with undefined subtype for a rectangle or ellipse whose first
\* two corners share an axis value, FREEHAND with the subtype ROTATED_RECT or
\* ELLIPSE for one whose first two corners do not, LINE, POLYGON and POLYLINE
\* for a line, a polygon and a path; and roi_to_shape of that record gives a
\* shape of the kind that was encoded.
C31_KindPreserved ==
    /\ (subject.tag = "shape" /\ encoded.tag = "roi") =>
         <<encoded.roi.roitype, encoded.roi.subtype>> =
            CASE subject.shape.shape_type \in {"rectangle", "ellipse"} ->
                    IF \/ subject.shape.data[1][1] = subject.shape.data[2][1]
                       \/ subject.shape.data[1][2] = subject.shape.data[2][2]
                    THEN <<IF subject.shape.shape_type = "rectangle"
                           THEN "RECT" ELSE "OVAL", "UNDEFINED">>
                    ELSE <<"FREEHAND", IF subject.shape.shape_type = "rectangle"
                                       THEN "ROTATED_RECT" ELSE "ELLIPSE">>
              [] subject.shape.shape_type = "line" -> <<"LINE", "UNDEFINED">>
              [] subject.shape.shape_type = "polygon" -> <<"POLYGON", "UNDEFINED">>
              [] subject.shape.shape_type = "path" -> <<"POLYLINE", "UNDEFINED">>
    /\ (subject.tag = "shape" /\ encoded.tag = "roi" /\ decoded.tag = "shape") =>
         /\ decoded.r.err = NoErr
         /\ decoded.r.some
         /\ decoded.r.shape.shape_type = subject.shape.shape_type

\* a rotated rectangle went through shape_to_roi as FREEHAND with the subtype
\* ROTATED_RECT, and roi_to_shape read a rectangle of four corners back
C31_Witness ==
    /\ subject.tag = "shape"
    /\ subject.shape.shape_type = "rectangle"
    /\ subject.shape.data[1][1] # subject.shape.data[2][1]
    /\ subject.shape.data[1][2] # subject.shape.data[2][2]
    /\ encoded.tag = "roi"
    /\ encoded.roi.roitype = "FREEHAND"
    /\ encoded.roi.subtype = "ROTATED_RECT"
    /\ encoded.roi.packed # <<0, 0, 0>>
    /\ decoded.tag = "shape"
    /\ decoded.r.some
    /\ decoded.r.shape.shape_type = "rectangle"
    /\ Len(decoded.r.shape.data) = 4

\* the pairs (type, subtype) that decoding has no case for: a subtype other
\* than undefined, ROTATED_RECT and ELLIPSE, or a type other than RECT,
\* OVAL, LINE, POINT, POLYGON, FREEHAND, POLYLINE and FREELINE with the
\* undefined subtype
UnsupportedPair(roi) ==
    \/ roi.subtype \notin {"UNDEFINED", "ROTATED_RECT", "ELLIPSE"}
    \/ /\ roi.subtype = "UNDEFINED"
       /\ roi.roitype \notin {"RECT", "OVAL", "LINE", "POINT", "POLYGON",
                              "FREEHAND", "POLYLINE", "FREELINE"}

\* C32: unsupported input fails and leaves nothing behind.  roi_to_shape of
\* a record whose pair is not supported ends in an error and gives no shape;
\* shape_to_roi of a shape whose kind is none of the five ends in an error
\* and gives no record; a batch load that failed leaves only whole entries
\* in the collection (one row with the kind of each shape, no entry without
\* a kind, no current item), and when the failure is a record with an
\* unsupported pair it leaves no entry of that batch at all.
C32_UnsupportedFails ==
    /\ (subject.tag = "record" /\ decoded.tag = "shape" /\ UnsupportedPair(subject.roi)) =>
         /\ decoded.r.err # NoErr
         /\ ~decoded.r.some
         /\ decoded.r.shape = NoShape
    /\ (subject.tag = "shape" /\ encoded # Idle
        /\ subject.shape.shape_type \notin {"rectangle", "ellipse", "line", "polygon", "path"}) =>
         /\ encoded.tag = "error"
         /\ encoded.err # NoErr
         /\ decoded = Idle
    /\ (subject.tag = "batch" /\ last_op.op = "read_ij_roi"
        /\ \E i \in 1..Len(subject.rois) : UnsupportedPair(subject.rois[i])) =>
         /\ err # NoErr
         /\ data = <<>>
         /\ shape_type = <<>>
         /\ rows = <<>>
         /\ emitted = <<>>
    /\ (subject.tag = "batch" /\ last_op.op = "read_ij_roi" /\ err # NoErr) =>
         /\ Len(shape_type) = Len(data)
         /\ rows = shape_type
         /\ \A i \in 1..Len(shape_type) :
               shape_type[i] \in {"rectangle", "ellipse", "line", "polygon", "path"}
         /\ current_item = None
         /\ paused = 0

\* an archive of a polygon followed by a record of type ANGLE was loaded:
\* the load ended in ValueError and the polygon was not added either
C32_Witness ==
    /\ subject.tag = "batch"
    /\ last_op.op = "read_ij_roi"
    /\ subject.rois[1].roitype = "POLYGON"
    /\ subject.rois[1].subtype = "UNDEFINED"
    /\ subject.rois[2].roitype = "ANGLE"
    /\ subject.rois[2].subtype = "UNDEFINED"
    /\ err = "ValueError"
    /\ data = <<>>
    /\ rows = <<>>

====
